---- MODULE Spec2Model ----
(***************************************************************************)
(* LevelED Up (src/app/page.tsx): the zustand store (settings, reward      *)
(* ledger), the Page component's state (mode, quiz session, play timer)    *)
(* and its event handlers, as one state machine.                           *)
(*                                                                         *)
(* Text is a sequence of one-character strings.  A JavaScript number is a  *)
(* record [finite, tenths]: the value times ten, so that one decimal digit *)
(* is exact.  Time is an instant counted in ticks of the wall clock.       *)
(***************************************************************************)
EXTENDS Integers, Sequences, FiniteSets, TLC

(* ------------------------------ bounds -------------------------------- *)

\* The random streams the question generator may draw from.
MaxSeed == 2

\* The wall clock runs from instant 0 to MaxNow.
MaxNow == 2

\* Timer ticks explored after a grant in the specifications that do not
\* follow the countdown to its end.
MaxTicks == 1

\* Extra final submissions explored on a completed session.
MaxResubmit == 1

(* --------------------------- small helpers ---------------------------- *)

Min(a, b) == IF a <= b THEN a ELSE b

Max(a, b) == IF a >= b THEN a ELSE b

(* ------------------------- JavaScript values -------------------------- *)

Digits == <<"0", "1", "2", "3", "4", "5", "6", "7", "8", "9">>

IsDigit(ch) == \E i \in 1..10 : Digits[i] = ch

DigitVal(ch) == (CHOOSE i \in 1..10 : Digits[i] = ch) - 1

\* String.prototype.trim over the modelled alphabet (the blank is the only
\* white space).
RECURSIVE trimStart(_)
trimStart(s) ==
  IF s # <<>> /\ Head(s) = " " THEN trimStart(Tail(s)) ELSE s

RECURSIVE trimEnd(_)
trimEnd(s) ==
  IF s # <<>> /\ s[Len(s)] = " " THEN trimEnd(SubSeq(s, 1, Len(s) - 1)) ELSE s

trim(s) == trimEnd(trimStart(s))

AllDigits(s) == s # <<>> /\ \A i \in 1..Len(s) : IsDigit(s[i])

RECURSIVE DecimalValue(_)
DecimalValue(s) ==
  IF s = <<>> THEN 0
  ELSE DecimalValue(SubSeq(s, 1, Len(s) - 1)) * 10 + DigitVal(s[Len(s)])

NaN == [finite |-> FALSE, tenths |-> 0]

Finite(t) == [finite |-> TRUE, tenths |-> t]

\* The unsigned part of a numeric literal: digits, or digits "." digit.
UnsignedLiteral(s) ==
  IF AllDigits(s) THEN Finite(DecimalValue(s) * 10)
  ELSE IF /\ Len(s) >= 3
          /\ s[Len(s) - 1] = "."
          /\ IsDigit(s[Len(s)])
          /\ AllDigits(SubSeq(s, 1, Len(s) - 2))
       THEN Finite(DecimalValue(SubSeq(s, 1, Len(s) - 2)) * 10 + DigitVal(s[Len(s)]))
       ELSE NaN

RECURSIVE LeadingDigits(_)
LeadingDigits(s) ==
  IF s # <<>> /\ IsDigit(Head(s))
  THEN <<Head(s)>> \o LeadingDigits(Tail(s))
  ELSE <<>>

\* parseInt(text, 10) in place of Number(text): the leading digits count.
NumberParseInt(s) ==
  LET p == LeadingDigits(trim(s)) IN
    IF p = <<>> THEN NaN ELSE Finite(DecimalValue(p) * 10)

\* Number(text): white space around the literal is ignored, the empty text
\* is 0, an optional sign, and anything else is NaN.
Number(s) ==
  LET t == trim(s) IN
    IF t = <<>> THEN Finite(0)
    ELSE IF Head(t) = "-"
         THEN LET u == UnsignedLiteral(Tail(t)) IN
                IF u.finite THEN Finite(0 - u.tenths) ELSE NaN
         ELSE UnsignedLiteral(t)

\* Math.round: to the nearest integer, a half towards +infinity.
MathRound(tenths) == (tenths + 5) \div 10

\* String(n) for an integer n >= 0.
RECURSIVE ToText(_)
ToText(n) ==
  IF n < 10 THEN <<Digits[n + 1]>>
  ELSE Append(ToText(n \div 10), Digits[(n % 10) + 1])

(* ------------------------------ settings ------------------------------ *)

DEFAULT_SETTINGS ==
  [passingPct |-> 80,
   questionsPerSession |-> 10,
   rewardMinutes |-> 20,
   dailyMaxMinutes |-> 60,
   skill |-> "multiplication"]

\* clampNum with Math.trunc in place of Math.round.
clampNumTruncating(val, min, max) ==
  LET n == Number(val) IN
    IF ~n.finite THEN min
    ELSE Max(min, Min(max, IF n.tenths >= 0 THEN n.tenths \div 10
                                            ELSE 0 - ((0 - n.tenths) \div 10)))

clampNum(val, min, max) ==
  LET n == Number(val) IN
    IF ~n.finite THEN min
    ELSE Max(min, Min(max, MathRound(n.tenths)))

(* ------------------------------ the clock ----------------------------- *)

\* Instants per calendar day, and the local zone's offset from UTC.
TicksPerDay == 2

TzOffset == 1

NullISO == [day |-> -1, tick |-> 0]

\* Date.prototype.toISOString: the UTC calendar fields of the instant.
toISOString(t) == [day |-> t \div TicksPerDay, tick |-> t % TicksPerDay]

\* new Date(iso): the instant of the UTC calendar fields.
DateOf(iso) == iso.day * TicksPerDay + iso.tick

\* yyyyMmDd(date): the local calendar day of the instant.
yyyyMmDd(date) == (date + TzOffset) \div TicksPerDay

(* ------------------------- question generator ------------------------- *)

\* Math.random() as a stream of draws u = Random(seed, k) / RandomDen in
\* [0, 1), one stream per seed.
RandomDen == 20

Random(seed, k) ==
  ((((seed + k) * (seed + k + 1)) \div 2) * 7 + seed * 3) % RandomDen

randInt(u, min, max) == ((u * (max - min + 1)) \div RandomDen) + min

\* One operand: draw k decides the range, draw k + 1 the value.
Operand(seed, k) ==
  IF Random(seed, k) * 100 < 65 * RandomDen
  THEN randInt(Random(seed, k + 1), 6, 12)
  ELSE randInt(Random(seed, k + 1), 0, 12)

\* The generator with its loop running to i <= count.
generateOneTooMany(count, seed) ==
  [i \in 1..(count + 1) |->
     LET a == Operand(seed, 4 * (i - 1))
         b == Operand(seed, 4 * (i - 1) + 2)
     IN [a |-> a, b |-> b, answer |-> a * b]]

generateMultiplicationQuestions(count, seed) ==
  [i \in 1..count |->
     LET a == Operand(seed, 4 * (i - 1))
         b == Operand(seed, 4 * (i - 1) + 2)
     IN [a |-> a, b |-> b, answer |-> a * b]]

(* ------------------------------- state -------------------------------- *)

VARIABLES
  settings,            \* store: the parent's settings
  earnedMinutesToday,  \* store: the reward ledger
  lastEarnedAtISO,     \* store: when minutes were last earned, or NullISO
  mode,                \* Page: "home", "parent", "kid" or "play"
  questions,           \* Page: the session's batch
  idx,                 \* Page: 0-based index of the current question
  input,               \* Page: the answer box's text
  correctCount,        \* Page: correct answers so far
  done,                \* Page: the session is complete
  showResult,          \* Page: the feedback message, or NoResult
  secondsLeft,         \* Page: the play countdown
  timer,               \* the play timer's interval is registered
  mounted,             \* the mount effect has run
  now,                 \* the wall clock
  grantedSeconds       \* history: countdown seconds granted since the
                       \* settings or the calendar day last changed

storeVars == <<settings, earnedMinutesToday, lastEarnedAtISO>>

quizVars == <<questions, idx, input, correctCount, done, showResult>>

vars ==
  <<settings, earnedMinutesToday, lastEarnedAtISO, mode, questions, idx,
    input, correctCount, done, showResult, secondsLeft, timer, mounted, now,
    grantedSeconds>>

NoResult ==
  [kind |-> "none", pct |-> 0, reward |-> 0, today |-> 0, max |-> 0, need |-> 0]

(* ------------------------------ the store ----------------------------- *)

\* setSettings(patch): the settings with the patch's fields replaced.
setSettings(patch) ==
  /\ settings' =
       [k \in DOMAIN settings |->
          IF k \in DOMAIN patch THEN patch[k] ELSE settings[k]]
  /\ UNCHANGED <<earnedMinutesToday, lastEarnedAtISO>>

\* addEarnedMinutes without its Math.min.
addEarnedMinutesUncapped(minutes) ==
  /\ earnedMinutesToday' = earnedMinutesToday + minutes
  /\ lastEarnedAtISO' = toISOString(now)
  /\ UNCHANGED settings

addEarnedMinutes(minutes) ==
  /\ earnedMinutesToday' =
       Min(settings.dailyMaxMinutes, earnedMinutesToday + minutes)
  /\ lastEarnedAtISO' = toISOString(now)
  /\ UNCHANGED settings

\* resetDailyIfNeeded comparing the UTC dates of the two instants.
resetDailyIfNeededUTC ==
  IF lastEarnedAtISO = NullISO
  THEN UNCHANGED storeVars
  ELSE IF lastEarnedAtISO.day # toISOString(now).day
       THEN /\ earnedMinutesToday' = 0
            /\ UNCHANGED <<settings, lastEarnedAtISO>>
       ELSE UNCHANGED storeVars

resetDailyIfNeeded ==
  IF lastEarnedAtISO = NullISO
  THEN UNCHANGED storeVars
  ELSE LET last == DateOf(lastEarnedAtISO) IN
         IF yyyyMmDd(last) # yyyyMmDd(now)
         THEN /\ earnedMinutesToday' = 0
              /\ UNCHANGED <<settings, lastEarnedAtISO>>
         ELSE UNCHANGED storeVars

(* ------------------------------ the page ------------------------------ *)

\* The score with Math.floor in place of Math.round.
scorePctFloor(c, n) == (100 * c) \div n

\* Math.round((c / n) * 100).
scorePct(c, n) == (200 * c + n) \div (2 * n)

\* The headroom test with <= in place of <.
canEarnAtCap == earnedMinutesToday <= settings.dailyMaxMinutes

canEarnMoreToday == earnedMinutesToday < settings.dailyMaxMinutes

\* The effect without its test of the mode.
PlayTimerEffectAnyMode(m, s) == s > 0

\* The play timer's effect, run after every render: the interval is
\* registered exactly when the mode is play and seconds are left; the
\* previous render's interval is cleared.
PlayTimerEffect(m, s) == m = "play" /\ s > 0

\* The history variable follows the settings and the calendar day.
GrantedAfter(granted) ==
  IF settings' # settings \/ yyyyMmDd(now') # yyyyMmDd(now)
  THEN 0
  ELSE grantedSeconds + granted

\* startKidSession generating the default number of questions.
startKidSessionDefaultCount(seed) ==
  /\ showResult' = NoResult
  /\ done' = FALSE
  /\ correctCount' = 0
  /\ idx' = 0
  /\ input' = <<>>
  /\ questions' =
       IF settings.skill = "multiplication"
       THEN generateMultiplicationQuestions(
              DEFAULT_SETTINGS.questionsPerSession, seed)
       ELSE <<>>
  /\ mode' = "kid"
  /\ UNCHANGED <<storeVars, secondsLeft, mounted, now>>
  /\ grantedSeconds' = GrantedAfter(0)
  /\ timer' = PlayTimerEffect(mode', secondsLeft')

\* startKidSession without its setCorrectCount(0).
startKidSessionKeepsCount(seed) ==
  /\ showResult' = NoResult
  /\ done' = FALSE
  /\ idx' = 0
  /\ input' = <<>>
  /\ questions' =
       IF settings.skill = "multiplication"
       THEN generateMultiplicationQuestions(settings.questionsPerSession, seed)
       ELSE <<>>
  /\ mode' = "kid"
  /\ UNCHANGED <<storeVars, correctCount, secondsLeft, mounted, now>>
  /\ grantedSeconds' = GrantedAfter(0)
  /\ timer' = PlayTimerEffect(mode', secondsLeft')

startKidSession(seed) ==
  /\ showResult' = NoResult
  /\ done' = FALSE
  /\ correctCount' = 0
  /\ idx' = 0
  /\ input' = <<>>
  /\ questions' =
       IF settings.skill = "multiplication"
       THEN generateMultiplicationQuestions(settings.questionsPerSession, seed)
       ELSE <<>>
  /\ mode' = "kid"
  /\ UNCHANGED <<storeVars, secondsLeft, mounted, now>>
  /\ grantedSeconds' = GrantedAfter(0)
  /\ timer' = PlayTimerEffect(mode', secondsLeft')

submitAnswer(seed) ==
  LET q == questions[idx + 1]
      parsed == Number(trim(input))
      isCorrect == parsed.finite /\ parsed.tenths = q.answer * 10
      next == idx + 1
      pct == scorePct(IF isCorrect THEN correctCount + 1 ELSE correctCount,
                      settings.questionsPerSession)
      passed == pct >= settings.passingPct
  IN
  /\ input' = <<>>
  /\ IF next >= Len(questions)
     THEN IF passed /\ canEarnMoreToday
          THEN /\ addEarnedMinutes(settings.rewardMinutes)
               /\ showResult' =
                    [kind |-> "earned", pct |-> pct,
                     reward |-> settings.rewardMinutes,
                     today |-> Min(settings.dailyMaxMinutes,
                                   earnedMinutesToday + settings.rewardMinutes),
                     max |-> settings.dailyMaxMinutes, need |-> 0]
               /\ secondsLeft' = settings.rewardMinutes * 60
               /\ mode' = "play"
               /\ done' = TRUE
               /\ correctCount' =
                    IF isCorrect THEN correctCount + 1 ELSE correctCount
               /\ UNCHANGED <<questions, idx>>
          ELSE IF passed /\ ~canEarnMoreToday
          THEN /\ showResult' =
                    [kind |-> "capped", pct |-> pct, reward |-> 0, today |-> 0,
                     max |-> settings.dailyMaxMinutes, need |-> 0]
               /\ done' = TRUE
               /\ correctCount' =
                    IF isCorrect THEN correctCount + 1 ELSE correctCount
               /\ UNCHANGED <<storeVars, questions, idx, mode, secondsLeft>>
          ELSE /\ showResult' =
                    [kind |-> "failed", pct |-> pct, reward |-> 0, today |-> 0,
                     max |-> 0, need |-> settings.passingPct]
               /\ questions' =
                    generateMultiplicationQuestions(
                      settings.questionsPerSession, seed)
               /\ idx' = 0
               /\ correctCount' = 0
               /\ done' = FALSE
               /\ UNCHANGED <<storeVars, mode, secondsLeft>>
     ELSE /\ idx' = next
          /\ correctCount' =
               IF isCorrect THEN correctCount + 1 ELSE correctCount
          /\ UNCHANGED <<storeVars, questions, done, showResult, mode,
                         secondsLeft>>
  /\ UNCHANGED <<mounted, now>>
  /\ grantedSeconds' =
       GrantedAfter(IF mode' = "play" THEN secondsLeft' ELSE 0)
  /\ timer' = PlayTimerEffect(mode', secondsLeft')

\* setMode(m) from a button.
setMode(m) ==
  /\ mode' = m
  /\ UNCHANGED <<storeVars, quizVars, secondsLeft, mounted, now>>
  /\ grantedSeconds' = GrantedAfter(0)
  /\ timer' = PlayTimerEffect(mode', secondsLeft')

\* A settings input's onChange in the parent view.
changeSetting(patch) ==
  /\ setSettings(patch)
  /\ UNCHANGED <<mode, quizVars, secondsLeft, mounted, now>>
  /\ grantedSeconds' = GrantedAfter(0)
  /\ timer' = PlayTimerEffect(mode', secondsLeft')

(* ------------------------------- Init --------------------------------- *)

Init ==
  /\ settings = DEFAULT_SETTINGS
  /\ earnedMinutesToday = 0
  /\ lastEarnedAtISO = NullISO
  /\ mode = "home"
  /\ questions = <<>>
  /\ idx = 0
  /\ input = <<>>
  /\ correctCount = 0
  /\ done = FALSE
  /\ showResult = NoResult
  /\ secondsLeft = 0
  /\ timer = FALSE
  /\ mounted = FALSE
  /\ now = 0
  /\ grantedSeconds = 0

(* ------------------------------ actions ------------------------------- *)

\* The mount effect: resetDailyIfNeeded(), once.
Mount ==
  /\ ~mounted
  /\ resetDailyIfNeeded
  /\ mounted' = TRUE
  /\ UNCHANGED <<mode, quizVars, secondsLeft, now>>
  /\ grantedSeconds' = GrantedAfter(0)
  /\ timer' = PlayTimerEffect(mode', secondsLeft')

\* home: "Parent Settings".
ParentSettings == mounted /\ mode = "home" /\ setMode("parent")

\* home: "Kid: Start Challenge".
StartChallenge(seed) == mounted /\ mode = "home" /\ startKidSession(seed)

SetPassingPct(val) ==
  /\ mounted /\ mode = "parent"
  /\ changeSetting([passingPct |-> clampNum(val, 50, 100)])

SetQuestionsPerSession(val) ==
  /\ mounted /\ mode = "parent"
  /\ changeSetting([questionsPerSession |-> clampNum(val, 5, 30)])

SetRewardMinutes(val) ==
  /\ mounted /\ mode = "parent"
  /\ changeSetting([rewardMinutes |-> clampNum(val, 5, 60)])

SetDailyMaxMinutes(val) ==
  /\ mounted /\ mode = "parent"
  /\ changeSetting([dailyMaxMinutes |-> clampNum(val, 10, 240)])

\* parent: "Back".
Back == mounted /\ mode = "parent" /\ setMode("home")

\* parent: "Start Kid Challenge".
StartKidChallenge(seed) == mounted /\ mode = "parent" /\ startKidSession(seed)

\* The quiz box is rendered only when questions[idx] exists.
QuizBoxShown == mode = "kid" /\ idx < Len(questions)

\* kid: the answer box's onChange.
SetInput(text) ==
  /\ mounted /\ QuizBoxShown
  /\ input' = text
  /\ UNCHANGED <<storeVars, mode, questions, idx, correctCount, done,
                 showResult, secondsLeft, mounted, now>>
  /\ grantedSeconds' = GrantedAfter(0)
  /\ timer' = PlayTimerEffect(mode', secondsLeft')

\* kid: "Submit", disabled while the trimmed input is empty.
Submit(seed) ==
  /\ mounted /\ QuizBoxShown
  /\ Len(trim(input)) # 0
  /\ submitAnswer(seed)

\* kid: the Enter key in the answer box.
EnterKey(seed) ==
  /\ mounted /\ QuizBoxShown
  /\ submitAnswer(seed)

\* "Exit" wired to the play view.
ExitToPlay == mounted /\ mode = "kid" /\ setMode("play")

\* kid: "Exit".
Exit == mounted /\ mode = "kid" /\ setMode("home")

\* play: "End Session".
EndSession == mounted /\ mode = "play" /\ setMode("home")

\* "Earn More Time" never disabled.
EarnMoreTimeAlways(seed) ==
  /\ mounted /\ mode = "play"
  /\ startKidSession(seed)

\* play: "Earn More Time", disabled when the daily max is reached.
EarnMoreTime(seed) ==
  /\ mounted /\ mode = "play"
  /\ canEarnMoreToday
  /\ startKidSession(seed)

\* The callback with the previous render's interval never cleared: two
\* intervals fire in the second.
TickUncleared ==
  /\ timer
  /\ secondsLeft' = Max(0, Max(0, secondsLeft - 1) - 1)
  /\ UNCHANGED <<storeVars, mode, quizVars, mounted, now>>
  /\ grantedSeconds' = GrantedAfter(0)
  /\ timer' = PlayTimerEffect(mode', secondsLeft')

\* The callback subtracting from the secondsLeft of the render that granted
\* the time, not from the current one.
TickStale ==
  /\ timer
  /\ secondsLeft' = Max(0, settings.rewardMinutes * 60 - 1)
  /\ UNCHANGED <<storeVars, mode, quizVars, mounted, now>>
  /\ grantedSeconds' = GrantedAfter(0)
  /\ timer' = PlayTimerEffect(mode', secondsLeft')

\* The interval's callback, one second after the effect registered it.
Tick ==
  /\ timer
  /\ secondsLeft' = Max(0, secondsLeft - 1)
  /\ UNCHANGED <<storeVars, mode, quizVars, mounted, now>>
  /\ grantedSeconds' = GrantedAfter(0)
  /\ timer' = PlayTimerEffect(mode', secondsLeft')

\* The wall clock with the day check run on every move of it.
AdvanceClockChecked ==
  /\ now < MaxNow
  /\ now' = now + 1
  /\ IF lastEarnedAtISO # NullISO
        /\ yyyyMmDd(DateOf(lastEarnedAtISO)) # yyyyMmDd(now')
     THEN earnedMinutesToday' = 0 /\ UNCHANGED <<settings, lastEarnedAtISO>>
     ELSE UNCHANGED storeVars
  /\ UNCHANGED <<mode, quizVars, secondsLeft, timer, mounted>>
  /\ grantedSeconds' = GrantedAfter(0)

\* The wall clock moves on.
AdvanceClock ==
  /\ now < MaxNow
  /\ now' = now + 1
  /\ UNCHANGED <<storeVars, mode, quizVars, secondsLeft, timer, mounted>>
  /\ grantedSeconds' = GrantedAfter(0)

\* The store's resetDailyIfNeeded(), called on the store.
ResetDaily ==
  /\ resetDailyIfNeeded
  /\ UNCHANGED <<mode, quizVars, secondsLeft, timer, mounted, now,
                 grantedSeconds>>

(* --------------------------- specifications --------------------------- *)

Seeds == 1..MaxSeed

\* The text of the right answer to the current question, and of a wrong one.
RightText == ToText(questions[idx + 1].answer)

WrongText == ToText(questions[idx + 1].answer + 1)

\* What the kid types: the right answer, or a wrong one.
AnswerTexts == IF QuizBoxShown THEN {RightText, WrongText} ELSE {}

\* Seconds elapsed of the running countdown.
TicksSinceGrant == settings.rewardMinutes * 60 - secondsLeft

\* A completed session takes MaxResubmit further submissions.
SubmitBound ==
  correctCount < settings.questionsPerSession + MaxResubmit

\* The whole page from its construction.  The kid types a right or a wrong
\* answer, the parent lowers the daily maximum, and the countdown is
\* followed for MaxTicks seconds.
Next ==
  \/ Mount
  \/ ParentSettings
  \/ \E seed \in Seeds : StartChallenge(seed)
  \/ SetDailyMaxMinutes(ToText(10))
  \/ Back
  \/ \E seed \in Seeds : StartKidChallenge(seed)
  \/ \E text \in AnswerTexts : SetInput(text)
  \/ \E seed \in Seeds : SubmitBound /\ Submit(seed)
  \/ \E seed \in Seeds : SubmitBound /\ EnterKey(seed)
  \/ Exit
  \/ EndSession
  \/ \E seed \in Seeds : EarnMoreTime(seed)
  \/ TicksSinceGrant < MaxTicks /\ Tick

Spec == Init /\ [][Next]_vars

\* The ledger over the days: the kid answers right, the parent edits the
\* reward and the daily maximum, and the wall clock moves on.
NextLedger ==
  \/ Mount
  \/ ParentSettings
  \/ \E seed \in Seeds : StartChallenge(seed)
  \/ \E val \in {ToText(25)} : SetRewardMinutes(val)
  \/ \E val \in {ToText(10), ToText(60)} : SetDailyMaxMinutes(val)
  \/ Back
  \/ \E seed \in Seeds : StartKidChallenge(seed)
  \/ SetInput(RightText)
  \/ \E seed \in Seeds : SubmitBound /\ Submit(seed)
  \/ Exit
  \/ EndSession
  \/ \E seed \in Seeds : EarnMoreTime(seed)
  \/ TicksSinceGrant < MaxTicks /\ Tick
  \/ AdvanceClock

SpecLedger == Init /\ [][NextLedger]_vars

\* The countdown to its end.  The page after the parent has set 5
\* questions, 5 reward minutes and a daily maximum of 10 and gone back home.
InitTimer ==
  /\ settings =
       [DEFAULT_SETTINGS EXCEPT !.questionsPerSession = clampNum(ToText(5), 5, 30),
                                !.rewardMinutes = clampNum(ToText(5), 5, 60),
                                !.dailyMaxMinutes = clampNum(ToText(10), 10, 240)]
  /\ earnedMinutesToday = 0
  /\ lastEarnedAtISO = NullISO
  /\ mode = "home"
  /\ questions = <<>>
  /\ idx = 0
  /\ input = <<>>
  /\ correctCount = 0
  /\ done = FALSE
  /\ showResult = NoResult
  /\ secondsLeft = 0
  /\ timer = FALSE
  /\ mounted = TRUE
  /\ now = 0
  /\ grantedSeconds = 0

NextTimer ==
  \/ ParentSettings
  \/ \E seed \in Seeds : StartChallenge(seed)
  \/ Back
  \/ \E seed \in Seeds : StartKidChallenge(seed)
  \/ SetInput(RightText)
  \/ \E seed \in Seeds : SubmitBound /\ Submit(seed)
  \/ Exit
  \/ EndSession
  \/ \E seed \in Seeds : EarnMoreTime(seed)
  \/ Tick

SpecTimer == InitTimer /\ [][NextTimer]_vars

\* setInterval keeps calling the callback while the interval is registered.
SpecTimerFair == SpecTimer /\ WF_vars(Tick)

\* The score of a session's last submission.  The page at the last question
\* of a session, for every passing percentage and session length the parent
\* can set and every count of right answers so far.
InitScore ==
  /\ \E p \in 50..100, n \in 5..30 :
       settings = [DEFAULT_SETTINGS EXCEPT !.passingPct = p,
                                           !.questionsPerSession = n]
  /\ earnedMinutesToday = 0
  /\ lastEarnedAtISO = NullISO
  /\ mode = "kid"
  /\ questions =
       generateMultiplicationQuestions(settings.questionsPerSession, 1)
  /\ idx = settings.questionsPerSession - 1
  /\ input = <<>>
  /\ correctCount \in 0..(settings.questionsPerSession - 1)
  /\ done = FALSE
  /\ showResult = NoResult
  /\ secondsLeft = 0
  /\ timer = FALSE
  /\ mounted = TRUE
  /\ now = 0
  /\ grantedSeconds = 0

NextScore ==
  /\ idx + 1 >= Len(questions)
  /\ \/ \E text \in AnswerTexts : SetInput(text)
     \/ \E seed \in Seeds : Submit(seed)

SpecScore == InitScore /\ [][NextScore]_vars

\* The parent's settings.  What the parent types into a settings input:
\* nothing, letters, a negative number, a number above every maximum, and
\* two fractions.
ParentTexts ==
  {<<>>, <<"a", "b">>, <<"-", "3">>, ToText(999),
   <<"1", "2", ".", "5">>, <<"7", "9", ".", "5">>}

NextSettings ==
  \/ Mount
  \/ ParentSettings
  \/ \E val \in ParentTexts : SetPassingPct(val)
  \/ \E val \in ParentTexts : SetQuestionsPerSession(val)
  \/ \E val \in ParentTexts : SetRewardMinutes(val)
  \/ \E val \in ParentTexts : SetDailyMaxMinutes(val)
  \/ Back

SpecSettings == Init /\ [][NextSettings]_vars

\* Sessions of different lengths: the parent edits the number of questions
\* between sessions, the kid answers right or wrong, fails, retries and
\* exits.
SessionLengths == {ToText(3), ToText(6)}

NextSession ==
  \/ Mount
  \/ ParentSettings
  \/ \E seed \in Seeds : StartChallenge(seed)
  \/ \E val \in SessionLengths : SetQuestionsPerSession(val)
  \/ Back
  \/ \E seed \in Seeds : StartKidChallenge(seed)
  \/ \E text \in AnswerTexts : SetInput(text)
  \/ \E seed \in Seeds : SubmitBound /\ Submit(seed)
  \/ \E seed \in Seeds : SubmitBound /\ EnterKey(seed)
  \/ Exit
  \/ EndSession
  \/ \E seed \in Seeds : EarnMoreTime(seed)

SpecSession == Init /\ [][NextSession]_vars

\* What the kid may type: the right answer, a wrong one, the right answer
\* between blanks, letters, and the right answer followed by a letter.
KidTexts ==
  IF QuizBoxShown
  THEN {RightText, WrongText, <<" ">> \o RightText \o <<" ">>,
        <<"a", "b">>, RightText \o <<"a">>}
  ELSE {}

\* Sessions of 5 questions answered with any of the texts.
NextAnswer ==
  \/ \E seed \in Seeds : StartChallenge(seed)
  \/ \E text \in KidTexts : SetInput(text)
  \/ \E seed \in Seeds : SubmitBound /\ Submit(seed)
  \/ \E seed \in Seeds : SubmitBound /\ EnterKey(seed)
  \/ Exit
  \/ EndSession

SpecAnswer == InitTimer /\ [][NextAnswer]_vars

\* The day check on the store: a ledger left by earlier sessions, earned at
\* some instant up to now, over the days 0..MaxNow.
ResetTimes == 0..((MaxNow + 1) * TicksPerDay - 1)

InitReset ==
  /\ settings = DEFAULT_SETTINGS
  /\ now \in ResetTimes
  /\ \/ /\ lastEarnedAtISO = NullISO
        /\ earnedMinutesToday = 0
     \/ /\ \E t \in 0..now : lastEarnedAtISO = toISOString(t)
        /\ earnedMinutesToday \in {20, 25, 40, 45, 60}
  /\ mode = "home"
  /\ questions = <<>>
  /\ idx = 0
  /\ input = <<>>
  /\ correctCount = 0
  /\ done = FALSE
  /\ showResult = NoResult
  /\ secondsLeft = 0
  /\ timer = FALSE
  /\ mounted = TRUE
  /\ grantedSeconds = 0

NextReset == ResetDaily

SpecReset == InitReset /\ [][NextReset]_vars

(* ------------------------------ claims -------------------------------- *)

\* A step that runs submitAnswer (by the Submit button or the Enter key).
SubmitStep == \E seed \in Seeds : EnterKey(seed)

\* The current question is the session's last.
FinalQuestion == idx + 1 = settings.questionsPerSession

\* The input, read as a number, is the current question's answer.
AnsweredRight ==
  LET parsed == Number(trim(input)) IN
    parsed.finite /\ parsed.tenths = questions[idx + 1].answer * 10

\* The correct count including the answer being submitted.
CountAfter == IF AnsweredRight THEN correctCount + 1 ELSE correctCount

\* p is num / den rounded to the nearest integer, a half up.
IsRoundHalfUp(p, num, den) ==
  /\ 2 * den * p - den <= 2 * num
  /\ 2 * num < 2 * den * p + den

\* round-half-up(100 * c / questionsPerSession) >= passingPct, that is
\* 100 * c / questionsPerSession + 1/2 >= passingPct.
Passes ==
  200 * CountAfter + settings.questionsPerSession
    >= 2 * settings.questionsPerSession * settings.passingPct

\* The last submission of a session.
FinalSubmission == SubmitStep /\ FinalQuestion

\* The last submission of a session, passing with headroom in the ledger.
PassStep ==
  /\ FinalSubmission
  /\ Passes
  /\ earnedMinutesToday < settings.dailyMaxMinutes

\* C1: in every reachable state earnedMinutesToday <= dailyMaxMinutes, also
\* after the parent lowers the daily maximum once minutes have been earned.
C1_LedgerWithinCap == earnedMinutesToday <= settings.dailyMaxMinutes

\* C2: with the settings held fixed, the countdown seconds granted by all
\* passes together never exceed dailyMaxMinutes * 60.
C2_GrantedWithinCap == grantedSeconds <= settings.dailyMaxMinutes * 60

\* C3: the last submission of a session reports the score
\* round-half-up(100 * c / questionsPerSession), c counting the answer just
\* submitted, and the session passes exactly if that score >= passingPct.
C3_ScoreAndPass ==
  [][FinalSubmission =>
       /\ IsRoundHalfUp(showResult'.pct, 100 * CountAfter,
                        settings.questionsPerSession)
       /\ (showResult'.kind \in {"earned", "capped"})
            <=> showResult'.pct >= settings.passingPct
       /\ (showResult'.kind = "failed")
            <=> showResult'.pct < settings.passingPct]_vars

\* 8 right of 10 with passingPct 80 has scored 80 and passed.
C3_Witness ==
  /\ settings.questionsPerSession = 10
  /\ settings.passingPct = 80
  /\ correctCount = 8
  /\ done
  /\ showResult.kind = "earned"
  /\ showResult.pct = 80

\* C4: a passing last submission with earnedMinutesToday < dailyMaxMinutes
\* leaves earnedMinutesToday = min(dailyMaxMinutes, earned + rewardMinutes),
\* secondsLeft = rewardMinutes * 60 whatever the countdown was, and mode play.
C4_PassWithHeadroom ==
  [][PassStep =>
       /\ earnedMinutesToday' =
            Min(settings.dailyMaxMinutes,
                earnedMinutesToday + settings.rewardMinutes)
       /\ secondsLeft' = settings.rewardMinutes * 60
       /\ mode' = "play"]_vars

\* A second pass under the same settings whose reward was cut at the cap.
C4_Witness ==
  /\ mode = "play"
  /\ showResult.kind = "earned"
  /\ secondsLeft = settings.rewardMinutes * 60
  /\ grantedSeconds > secondsLeft
  /\ earnedMinutesToday = settings.dailyMaxMinutes
  /\ earnedMinutesToday % settings.rewardMinutes # 0

\* C5: a passing last submission with earnedMinutesToday >= dailyMaxMinutes
\* adds no minutes, leaves secondsLeft, stays in mode kid and sets a result
\* message.
C5_PassAtCap ==
  [][(FinalSubmission /\ Passes
        /\ earnedMinutesToday >= settings.dailyMaxMinutes) =>
       /\ earnedMinutesToday' = earnedMinutesToday
       /\ lastEarnedAtISO' = lastEarnedAtISO
       /\ secondsLeft' = secondsLeft
       /\ mode' = "kid"
       /\ showResult' # NoResult
       /\ showResult'.kind = "capped"]_vars

\* A session passed at the cap, still in the quiz view.
C5_Witness ==
  /\ mode = "kid"
  /\ done
  /\ showResult.kind = "capped"
  /\ earnedMinutesToday >= settings.dailyMaxMinutes

\* C6: a last submission scoring below passingPct leaves a fresh session: a
\* batch of exactly questionsPerSession questions, index 0, correct count 0,
\* done false, mode kid, a feedback message, ledger and countdown unchanged.
C6_FailRestarts ==
  [][(FinalSubmission /\ ~Passes) =>
       /\ Len(questions') = settings.questionsPerSession
       /\ idx' = 0
       /\ correctCount' = 0
       /\ done' = FALSE
       /\ mode' = "kid"
       /\ showResult' # NoResult
       /\ earnedMinutesToday' = earnedMinutesToday
       /\ secondsLeft' = secondsLeft]_vars

\* A failed session replaced by a fresh one, the last answer having been right.
C6_Witness ==
  /\ mode = "kid"
  /\ showResult.kind = "failed"
  /\ showResult.pct > 0
  /\ idx = 0
  /\ correctCount = 0
  /\ ~done
  /\ input = <<>>

\* C7: the mode becomes play only by a passing last submission in mode kid
\* with earnedMinutesToday < dailyMaxMinutes before the step.
C7_PlayOnlyByPass ==
  [][(mode # "play" /\ mode' = "play") => (mode = "kid" /\ PassStep)]_vars

\* The play view, entered.
C7_Witness == mode = "play" /\ done /\ showResult.kind = "earned"

\* C8: when minutes were last earned on another local calendar day, a passing
\* last submission is evaluated against a ledger reset to 0.
C8_NewDayStartsAtZero ==
  [][(/\ FinalSubmission
      /\ Passes
      /\ lastEarnedAtISO # NullISO
      /\ yyyyMmDd(DateOf(lastEarnedAtISO)) # yyyyMmDd(now)) =>
       /\ earnedMinutesToday' =
            Min(settings.dailyMaxMinutes, 0 + settings.rewardMinutes)
       /\ mode' = "play"]_vars

\* C9: secondsLeft >= 0 always; a tick in mode play with seconds left takes
\* exactly 1; and once 0 it stays 0 until a pass sets it.
C9_Countdown ==
  /\ [](secondsLeft >= 0)
  /\ [][(Tick /\ mode = "play" /\ secondsLeft > 0) =>
          secondsLeft' = secondsLeft - 1]_vars
  /\ [][(secondsLeft = 0 /\ secondsLeft' # 0) => PassStep]_vars

\* A countdown that has run to its end.
C9_Witness ==
  /\ mode = "play"
  /\ showResult.kind = "earned"
  /\ secondsLeft = 0
  /\ ~timer

\* C10: the interval is registered only while mode = play and secondsLeft > 0,
\* no tick is issued otherwise, and outside play no step but the passing
\* submission changes secondsLeft.
C10_TimerScoped ==
  /\ [](timer => (mode = "play" /\ secondsLeft > 0))
  /\ [][Tick => (mode = "play" /\ secondsLeft > 0)]_vars
  /\ [][(mode # "play" /\ secondsLeft' # secondsLeft) => PassStep]_vars

\* The play view left in mid-countdown, and a step taken since.
C10_Witness ==
  /\ mode = "kid"
  /\ ~timer
  /\ secondsLeft > 0
  /\ secondsLeft < settings.rewardMinutes * 60
  /\ idx > 0

\* v is what an edit with the text val stores in a setting bounded by lo and
\* hi: lo for a text that is no number, else the number rounded to the
\* nearest integer (a half up) and clamped to lo..hi.
StoresClamped(v, val, lo, hi) ==
  LET n == Number(val) IN
    IF ~n.finite THEN v = lo
    ELSE /\ v \in lo..hi
         /\ n.tenths < 10 * lo - 5 => v = lo
         /\ n.tenths >= 10 * hi + 5 => v = hi
         /\ (n.tenths >= 10 * lo - 5 /\ n.tenths < 10 * hi + 5)
              => IsRoundHalfUp(v, n.tenths, 10)

SettingsInBounds ==
  /\ settings.passingPct \in 50..100
  /\ settings.questionsPerSession \in 5..30
  /\ settings.rewardMinutes \in 5..60
  /\ settings.dailyMaxMinutes \in 10..240

\* C11: in every reachable state the settings are integers within their
\* bounds, and a settings edit with any text stores the value clamped and
\* rounded, the lower bound for a text that is no number.
C11_SettingsClamped ==
  /\ []SettingsInBounds
  /\ [][\A val \in ParentTexts :
          /\ SetPassingPct(val) =>
               StoresClamped(settings'.passingPct, val, 50, 100)
          /\ SetQuestionsPerSession(val) =>
               StoresClamped(settings'.questionsPerSession, val, 5, 30)
          /\ SetRewardMinutes(val) =>
               StoresClamped(settings'.rewardMinutes, val, 5, 60)
          /\ SetDailyMaxMinutes(val) =>
               StoresClamped(settings'.dailyMaxMinutes, val, 10, 240)]_vars

\* A fraction rounded, a number above the maximum clamped, and a text that
\* is no number stored as the minimum.
C11_Witness ==
  /\ settings.passingPct = 80
  /\ settings.questionsPerSession = 13
  /\ settings.dailyMaxMinutes = 240
  /\ settings.rewardMinutes = 5

\* C12: a submission with an empty or blank input, by the Submit button or
\* the Enter key, changes nothing of the session, the mode, the feedback,
\* the ledger and the countdown.
C12_EmptySubmitNoOp ==
  [][(SubmitStep /\ trim(input) = <<>>) =>
       UNCHANGED <<idx, correctCount, questions, done, mode, showResult,
                   earnedMinutesToday, lastEarnedAtISO, secondsLeft>>]_vars

\* C13: a step out of mode play goes home, or, only with
\* earnedMinutesToday < dailyMaxMinutes, into a fresh session: a new batch,
\* index 0, correct count 0, empty input, no feedback.
C13_EarnMoreOnlyWithHeadroom ==
  [][(mode = "play" /\ mode' # "play") =>
       \/ mode' = "home"
       \/ /\ mode' = "kid"
          /\ earnedMinutesToday < settings.dailyMaxMinutes
          /\ \E seed \in Seeds :
               questions' =
                 generateMultiplicationQuestions(
                   settings.questionsPerSession, seed)
          /\ Len(questions') = settings.questionsPerSession
          /\ idx' = 0
          /\ correctCount' = 0
          /\ input' = <<>>
          /\ done' = FALSE
          /\ showResult' = NoResult]_vars

\* A fresh session begun with minutes earned and headroom left, the
\* countdown of the last pass still standing.
C13_Witness ==
  /\ mode = "kid"
  /\ idx = 0
  /\ correctCount = 0
  /\ showResult = NoResult
  /\ earnedMinutesToday > 0
  /\ earnedMinutesToday < settings.dailyMaxMinutes
  /\ secondsLeft > 0

\* C14: leaving a quiz for home, at any index and correct count, leaves the
\* ledger, the settings and the countdown; and the abandoned session earns
\* nothing later: no minutes are earned outside mode kid, and mode kid is
\* entered only with a session reset to index 0 and correct count 0.
C14_ExitLeavesLedger ==
  /\ [][(mode = "kid" /\ mode' = "home") =>
          UNCHANGED <<earnedMinutesToday, lastEarnedAtISO, settings,
                      secondsLeft>>]_vars
  /\ [][(mode \in {"home", "parent"}) =>
          UNCHANGED <<earnedMinutesToday, lastEarnedAtISO>>]_vars
  /\ [][(mode # "kid" /\ mode' = "kid") =>
          (idx' = 0 /\ correctCount' = 0 /\ done' = FALSE)]_vars

\* A session abandoned at its last question with every answer so far right:
\* home, with its index and count standing and nothing earned.
C14_Witness ==
  /\ mode = "home"
  /\ ~done
  /\ idx + 1 = settings.questionsPerSession
  /\ correctCount = idx
  /\ earnedMinutesToday = 0

\* C15: in mode kid the session holds exactly questionsPerSession questions
\* and the index is one of them, after any settings edits, session starts,
\* failing retries and exits.
C15_SessionLength ==
  mode = "kid" =>
    /\ Len(questions) = settings.questionsPerSession
    /\ idx \in 0..(settings.questionsPerSession - 1)

\* A session of the edited length, begun by the retry after a failed
\* session, at its last question.
C15_Witness ==
  /\ mode = "kid"
  /\ settings.questionsPerSession # DEFAULT_SETTINGS.questionsPerSession
  /\ showResult.kind = "failed"
  /\ idx + 1 = settings.questionsPerSession

\* The last earning is dated, in local time, on another day than today.
EarnedOnAnotherDay ==
  /\ lastEarnedAtISO # NullISO
  /\ \E t \in ResetTimes :
       /\ toISOString(t) = lastEarnedAtISO
       /\ (t + TzOffset) \div TicksPerDay # (now + TzOffset) \div TicksPerDay

\* C16: resetDailyIfNeeded sets earnedMinutesToday to 0 when the last
\* earning is dated on another local day, changes nothing when there is no
\* last earning or it is dated today, never changes settings or
\* lastEarnedAtISO, and its result is a state it leaves alone.
C16_ResetDaily ==
  [][ResetDaily =>
       /\ EarnedOnAnotherDay => earnedMinutesToday' = 0
       /\ ~EarnedOnAnotherDay => earnedMinutesToday' = earnedMinutesToday
       /\ UNCHANGED <<settings, lastEarnedAtISO>>
       /\ EarnedOnAnotherDay' => earnedMinutesToday' = 0]_vars

\* The ledger after a reset: nothing earned today, the last earning dated
\* on an earlier day.
C16_Witness ==
  /\ EarnedOnAnotherDay
  /\ earnedMinutesToday = 0

\* C17: once the page is mounted no step decreases earnedMinutesToday, also
\* when the calendar day rolls over with the page open, and every passing
\* submission with headroom in the ledger strictly increases it.
C17_NeverDecreases ==
  /\ [][mounted => earnedMinutesToday' >= earnedMinutesToday]_vars
  /\ [][PassStep => earnedMinutesToday' > earnedMinutesToday]_vars

\* Minutes earned in two sessions, the last of them on an earlier day than
\* today, still in the ledger.
C17_Witness ==
  /\ mounted
  /\ EarnedOnAnotherDay
  /\ earnedMinutesToday > settings.rewardMinutes

\* The input holds a character that is neither a digit nor a blank.
HasLetter(s) == \E i \in 1..Len(s) : ~IsDigit(s[i]) /\ s[i] # " "

\* C18: a submission of a non-empty input on a non-final question moves idx
\* on by one, clears the input, counts 1 when the input is the decimal text
\* of the answer and 0 when it is another number or not a number, stays in
\* mode kid with the same questions, and leaves the ledger, the settings and
\* the countdown.
C18_NonFinalSubmission ==
  [][(SubmitStep /\ idx + 1 < settings.questionsPerSession
                 /\ trim(input) # <<>>) =>
       /\ idx' = idx + 1
       /\ input' = <<>>
       /\ correctCount' \in {correctCount, correctCount + 1}
       /\ (AllDigits(trim(input))
             /\ DecimalValue(trim(input)) = questions[idx + 1].answer)
            => correctCount' = correctCount + 1
       /\ (AllDigits(trim(input))
             /\ DecimalValue(trim(input)) # questions[idx + 1].answer)
            => correctCount' = correctCount
       /\ HasLetter(input) => correctCount' = correctCount
       /\ mode' = "kid"
       /\ UNCHANGED <<questions, done, showResult, earnedMinutesToday,
                      lastEarnedAtISO, settings, secondsLeft>>]_vars

\* Two non-final submissions made, one of them counted as correct.
C18_Witness ==
  /\ mode = "kid"
  /\ idx = 2
  /\ correctCount = 1
  /\ input = <<>>
  /\ showResult = NoResult

\* C19: with the tick weakly fair, once mode is play with secondsLeft > 0
\* either the user leaves play or secondsLeft reaches 0 and the interval is
\* cleared; while play lasts secondsLeft changes only by a tick taking
\* exactly 1 from it, so N seconds take exactly N ticks; and at 0 in play
\* there is no interval.
C19_CountdownEnds ==
  /\ (mode = "play" /\ secondsLeft > 0)
       ~> (mode # "play" \/ (secondsLeft = 0 /\ ~timer))
  /\ [][(mode = "play" /\ mode' = "play" /\ secondsLeft' # secondsLeft) =>
          (Tick /\ secondsLeft' = secondsLeft - 1)]_vars
  /\ [](mode = "play" /\ secondsLeft = 0 => ~timer)

\* The countdown of a granted block run out in the play view.
C19_Witness ==
  /\ mode = "play"
  /\ secondsLeft = 0
  /\ ~timer
  /\ grantedSeconds > 0

\* C20: in mode kid the correct count of the session is at most its number
\* of questions and the score shown lies in 0..100, also after a session
\* completed with a pass at the daily cap.
C20_CountWithinSession ==
  mode = "kid" =>
    /\ correctCount <= settings.questionsPerSession
    /\ showResult.pct \in 0..100

====
